---- MODULE Spec2Model ----
(***************************************************************************)
(* Model of ActraStride/general_scraper.                                   *)
(*                                                                         *)
(*   app/scraper/scraper.py      the Scraper wrapper around a Chrome       *)
(*                               WebDriver (start, stop, context manager)  *)
(*   app/utils/logging_setup.py  setup_logging and the time converter it   *)
(*                               installs on logging.Formatter             *)
(*                                                                         *)
(* The two components do not share state.  Spec is the behaviour of one    *)
(* Scraper instance driven by an arbitrary client; SpecLogging is the      *)
(* behaviour of a process that calls setup_logging.                        *)
(***************************************************************************)
EXTENDS Naturals, Sequences, FiniteSets

\* ------------------------------------------------------------------ bounds
\* Number of calls the client makes on the wrapper.
MaxCalls == 4
\* Depth at which the interpreter raises RecursionError.
RecursionLimit == 3
\* Number of times the process calls setup_logging.
MaxSetupCalls == 2

\* --------------------------------------------------------------- constants
None == 0
\* self._service while it is None
NoService == [id |-> 0, executable_path |-> None]
NoError == "NoError"
DriverInitializationError == "DriverInitializationError"
DriverShutdownError == "DriverShutdownError"
\* An exception raised by the body of a with block.
BodyError == "BodyError"

VARIABLES
    \* ---- Scraper instance (scraper.py:44-56)
    driver_path,    \* None or a path
    headless,       \* BOOLEAN
    _driver,        \* None or the id of the held webdriver.Chrome
    _service,       \* None or the held ChromeService
    \* ---- the external library, as seen from the wrapper
    nDrivers,       \* webdriver.Chrome objects constructed so far (ids 1..nDrivers)
    nServices,      \* ChromeService objects constructed so far
    quits,          \* quits[d] = number of quit() requests made on driver d
    driverOptions,  \* Options object handed to the last webdriver.Chrome(...) call
    \* ---- the client
    pc,             \* "idle" or "body" (inside a with block)
    withDriver,     \* the handle __enter__ yielded for the current with block
    nCalls,         \* calls made so far
    last,           \* what the last call did and what reached its caller
    \* ---- logging_setup.py
    converter,      \* logging.Formatter.converter: "localtime" or "lambda"
    handlers,       \* handlers installed on the root logger
    logDirs,        \* log directories that exist on disk
    setupPc,        \* position inside setup_logging
    log_dir,        \* directory chosen by the running setup_logging call
    emitting,       \* index of the handler the success record is being emitted to
    callee,         \* function the converter call in progress invokes next
    depth,          \* frames of the converter call in progress
    formattedBy,    \* handlers that formatted the success record of this call
    handledErrors,  \* Handler.handleError invocations of this call
    setupResult,    \* outcome of the last setup_logging call
    nSetupCalls

svars == <<driver_path, headless, _driver, _service, nDrivers, nServices,
           quits, driverOptions, pc, withDriver, nCalls, last>>
lvars == <<converter, handlers, logDirs, setupPc, log_dir, emitting, callee, depth,
           formattedBy, handledErrors, setupResult, nSetupCalls>>
vars == <<svars, lvars>>

\* ================================================================ scraper.py

\* Options() followed by add_argument calls and the headless property.
NewOptions == [arguments |-> <<>>, headless |-> FALSE]
add_argument(o, a) == [o EXCEPT !.arguments = Append(@, a)]

_configure_options_NoGpuFlag(h) ==
    LET o1 == add_argument(NewOptions, "--disable-infobars")
        o2 == add_argument(o1, "--disable-dev-shm-usage")
        o3 == add_argument(o2, "--no-sandbox")
    IN  IF h THEN [o3 EXCEPT !.headless = TRUE] ELSE o3

_configure_options(h) ==
    LET o1 == add_argument(NewOptions, "--disable-infobars")
        o2 == add_argument(o1, "--disable-dev-shm-usage")
        o3 == add_argument(o2, "--no-sandbox")
    IN  IF h
        THEN add_argument([o3 EXCEPT !.headless = TRUE], "--disable-gpu")
        ELSE o3

\* The ChromeService that _configure_service stores when the constructor
\* succeeds: ChromeService(executable_path=path) or ChromeService().
_configure_service(path, id) ==
    IF path # None
    THEN [id |-> id, executable_path |-> path]
    ELSE [id |-> id, executable_path |-> None]

\* Outcome of one call: the wrapper fields afterwards, the value returned,
\* the exception that leaves the call, the records logged, the driver on
\* which quit() was requested and whether that request failed, the number of
\* stop() invocations made, and the numbers of objects constructed.
Outcome(d, s, ret, err, log, quit, quitFailed, stops, newD, newS) ==
    [driver |-> d, service |-> s, ret |-> ret, err |-> err, log |-> log,
     quit |-> quit, quitFailed |-> quitFailed, stops |-> stops,
     newDrivers |-> newD, newServices |-> newS]

\* stop() called with wrapper fields (d, s); quitOk: the outcome of quit().
stop_KeepHandleOnFailure(d, s, quitOk) ==
    IF d # None
    THEN IF quitOk
         THEN Outcome(None, NoService, None, NoError, <<"info">>, d, FALSE, 1, 0, 0)
         ELSE Outcome(d, s, None, DriverShutdownError, <<"error">>, d, TRUE, 1, 0, 0)
    ELSE Outcome(d, s, None, NoError, <<>>, None, FALSE, 1, 0, 0)

stop_DropWithoutQuit(d, s, quitOk) ==
    Outcome(None, NoService, None, NoError, <<>>, None, FALSE, 1, 0, 0)

stop(d, s, quitOk) ==
    IF d # None
    THEN IF quitOk
         THEN Outcome(None, NoService, None, NoError, <<"info">>, d, FALSE, 1, 0, 0)
         ELSE Outcome(None, NoService, None, DriverShutdownError, <<"error">>,
                      d, TRUE, 1, 0, 0)
    ELSE Outcome(d, s, None, NoError, <<>>, None, FALSE, 1, 0, 0)

\* start() called with wrapper fields (d, s).  svcOk, ctorOk, waitOk, quitOk:
\* whether ChromeService(...), webdriver.Chrome(...), implicitly_wait(...)
\* and quit() succeed (a failure is a WebDriverException).  newD, newS: the
\* driver and the service that the constructors return when they succeed.
start_AlwaysConstruct(d, s, svcOk, ctorOk, waitOk, quitOk, newD, newS) ==
    Outcome(newD, newS, newD, NoError, <<"info">>, None, FALSE, 0, 1, 1)

start(d, s, svcOk, ctorOk, waitOk, quitOk, newD, newS) ==
    IF d # None
    THEN Outcome(d, s, d, NoError, <<"warning">>, None, FALSE, 0, 0, 0)
    ELSE IF ~svcOk
    THEN \* _configure_service raises DriverInitializationError, which the
         \* except WebDriverException clause of start does not catch
         Outcome(d, s, None, DriverInitializationError, <<"error">>,
                 None, FALSE, 0, 0, 0)
    ELSE IF ~ctorOk
    THEN LET c == stop(d, newS, quitOk)
         IN  Outcome(c.driver, c.service, None,
                     IF c.err # NoError THEN c.err ELSE DriverInitializationError,
                     <<"critical">> \o c.log, c.quit, c.quitFailed, c.stops, 0, 1)
    ELSE IF ~waitOk
    THEN LET c == stop(newD, newS, quitOk)
         IN  Outcome(c.driver, c.service, None,
                     IF c.err # NoError THEN c.err ELSE DriverInitializationError,
                     <<"critical">> \o c.log, c.quit, c.quitFailed, c.stops, 1, 1)
    ELSE Outcome(newD, newS, newD, NoError, <<"info">>, None, FALSE, 0, 1, 1)

\* __exit__ called with wrapper fields (d, s); exc: the exception raised by
\* the body (NoError when the body completed).
__exit___SkipStopOnException(d, s, exc, quitOk) ==
    IF exc # NoError
    THEN Outcome(d, s, None, exc, <<"error:exc_info">>, None, FALSE, 0, 0, 0)
    ELSE stop(d, s, quitOk)

__exit__(d, s, exc, quitOk) ==
    LET c == stop(d, s, quitOk)
    IN  IF c.err # NoError
        THEN \* the exception raised by stop() leaves __exit__ and replaces exc
             Outcome(c.driver, c.service, None, c.err, c.log,
                     c.quit, c.quitFailed, c.stops, 0, 0)
        ELSE Outcome(c.driver, c.service, None, exc,
                     c.log \o (IF exc # NoError THEN <<"error:exc_info">> ELSE <<>>),
                     c.quit, c.quitFailed, c.stops, 0, 0)

\* The record kept of a call: the operation, the handle held when it was
\* made, the exception the with body raised, and the call's outcome.
Last(op, held, exc, o) ==
    [op |-> op, held |-> held, exc |-> exc, ret |-> o.ret, err |-> o.err,
     log |-> o.log, quit |-> o.quit, quitFailed |-> o.quitFailed,
     stops |-> o.stops]

\* Effect of an outcome on the wrapper and on the library.  start builds the
\* options and hands them to webdriver.Chrome as soon as the service exists.
Apply(op, exc, o) ==
    /\ _driver' = o.driver
    /\ _service' = o.service
    /\ nDrivers' = nDrivers + o.newDrivers
    /\ nServices' = nServices + o.newServices
    /\ quits' = IF o.quit # None THEN [quits EXCEPT ![o.quit] = @ + 1] ELSE quits
    /\ driverOptions' = IF o.newServices > 0
                        THEN _configure_options(headless) ELSE driverOptions
    /\ last' = Last(op, _driver, exc, o)
    /\ nCalls' = nCalls + 1

\* scraper.start()
Start ==
    /\ nCalls < MaxCalls
    /\ \E svcOk, ctorOk, waitOk, quitOk \in BOOLEAN :
          Apply("start", NoError,
                start(_driver, _service, svcOk, ctorOk, waitOk, quitOk,
                      nDrivers + 1, _configure_service(driver_path, nServices + 1)))
    /\ UNCHANGED <<driver_path, headless, pc, withDriver, lvars>>

\* scraper.stop()
Stop ==
    /\ nCalls < MaxCalls
    /\ \E quitOk \in BOOLEAN :
          Apply("stop", NoError, stop(_driver, _service, quitOk))
    /\ UNCHANGED <<driver_path, headless, pc, withDriver, lvars>>

\* with scraper as driver: ...   (__enter__)
Enter ==
    /\ nCalls < MaxCalls
    /\ pc = "idle"
    /\ \E svcOk, ctorOk, waitOk, quitOk \in BOOLEAN :
          LET o == start(_driver, _service, svcOk, ctorOk, waitOk, quitOk,
                         nDrivers + 1, _configure_service(driver_path, nServices + 1))
          IN  /\ Apply("enter", NoError, o)
              /\ pc' = IF o.err = NoError THEN "body" ELSE "idle"
              /\ withDriver' = IF o.err = NoError THEN o.ret ELSE withDriver
    /\ UNCHANGED <<driver_path, headless, lvars>>

\* the body of the with block ends, normally or by raising (__exit__)
Exit ==
    /\ pc = "body"
    /\ \E exc \in {NoError, BodyError}, quitOk \in BOOLEAN :
          Apply("exit", exc, __exit__(_driver, _service, exc, quitOk))
    /\ pc' = "idle"
    /\ UNCHANGED <<driver_path, headless, withDriver, lvars>>

\* Scraper(driver_path, headless): the state after __init__
ScraperInit(path, h) ==
    /\ driver_path = path
    /\ headless = h
    /\ _driver = None
    /\ _service = NoService
    /\ nDrivers = 0
    /\ nServices = 0
    /\ quits = [d \in 1..(MaxCalls + 1) |-> 0]
    /\ driverOptions = NewOptions
    /\ pc = "idle"
    /\ withDriver = None
    /\ nCalls = 0
    /\ last = [op |-> "init", held |-> None, exc |-> NoError, ret |-> None,
               err |-> NoError, log |-> <<>>, quit |-> None,
               quitFailed |-> FALSE, stops |-> 0]

\* ========================================================== logging_setup.py

\* Handlers of the root logger, in the order get_logging_config lists them.
RootHandlers == <<"rotating_file", "console">>

\* The function that the body of the installed lambda calls: the lambda
\* looks logging.Formatter.converter up when it runs, so it gets whatever
\* the attribute holds at that time.
LambdaCallee(current) == current

\* The process before setup_logging was ever called.
LoggingInit(dirs) ==
    /\ converter = "localtime"
    /\ handlers = {}
    /\ logDirs = dirs
    /\ setupPc = "idle"
    /\ log_dir = "none"
    /\ emitting = 0
    /\ callee = "none"
    /\ depth = 0
    /\ formattedBy = {}
    /\ handledErrors = 0
    /\ setupResult = [err |-> NoError, cause |-> "none"]
    /\ nSetupCalls = 0

\* setup_logging(project_root) up to the return of get_log_dir
GetLogDir ==
    /\ setupPc = "idle"
    /\ nSetupCalls < MaxSetupCalls
    /\ nSetupCalls' = nSetupCalls + 1
    /\ formattedBy' = {}
    /\ handledErrors' = 0
    /\ emitting' = 0
    /\ \E project_root \in {None, 1}, mkdirOk \in BOOLEAN :
          LET dir == IF project_root = None THEN "default/logs" ELSE "root/logs"
          IN  IF dir \in logDirs \/ mkdirOk
              THEN /\ logDirs' = logDirs \cup {dir}
                   /\ log_dir' = dir
                   /\ setupPc' = "dictConfig"
                   /\ setupResult' = [err |-> NoError, cause |-> "none"]
              ELSE /\ setupPc' = "idle"
                   /\ setupResult' = [err |-> "LoggingSetupError", cause |-> "OSError"]
                   /\ UNCHANGED <<logDirs, log_dir>>
    /\ UNCHANGED <<converter, handlers, callee, depth, svars>>

\* logging.config.dictConfig(config)
DictConfig ==
    /\ setupPc = "dictConfig"
    /\ \E configOk \in BOOLEAN :
          IF configOk
          THEN /\ handlers' = {RootHandlers[i] : i \in DOMAIN RootHandlers}
               /\ setupPc' = "assign"
               /\ UNCHANGED setupResult
          ELSE /\ setupPc' = "idle"
               /\ setupResult' = [err |-> "LoggingSetupError", cause |-> "ValueError"]
               /\ UNCHANGED handlers
    /\ UNCHANGED <<converter, logDirs, log_dir, emitting, callee, depth,
                   formattedBy, handledErrors, nSetupCalls, svars>>

\* logging.Formatter.converter = lambda *args: ...
AssignConverter ==
    /\ setupPc = "assign"
    /\ converter' = "lambda"
    /\ setupPc' = "log"
    /\ UNCHANGED <<handlers, logDirs, log_dir, emitting, callee, depth,
                   formattedBy, handledErrors, setupResult, nSetupCalls, svars>>

\* logger.info(...): the record goes to the next handler of the root logger,
\* whose formatter calls self.converter(record.created); after the last
\* handler setup_logging returns.
LogInfo ==
    /\ setupPc = "log"
    /\ IF emitting < Len(RootHandlers)
       THEN /\ emitting' = emitting + 1
            /\ callee' = converter
            /\ depth' = 0
            /\ setupPc' = "format"
            /\ UNCHANGED setupResult
       ELSE /\ setupPc' = "idle"
            /\ setupResult' = [err |-> NoError, cause |-> "none"]
            /\ UNCHANGED <<emitting, callee, depth>>
    /\ UNCHANGED <<converter, handlers, logDirs, log_dir, formattedBy,
                   handledErrors, nSetupCalls, svars>>

\* One call made by the converter call in progress.  time.localtime returns;
\* the lambda calls LambdaCallee.  At RecursionLimit frames the interpreter
\* raises RecursionError: the rotating file handler hands it to handleError,
\* the stream handler re-raises it, and setup_logging wraps it.
ConverterCall ==
    /\ setupPc = "format"
    /\ IF callee = "localtime"
       THEN /\ formattedBy' = formattedBy \cup {RootHandlers[emitting]}
            /\ setupPc' = "log"
            /\ depth' = 0
            /\ callee' = "none"
            /\ UNCHANGED <<handledErrors, setupResult>>
       ELSE IF depth < RecursionLimit
       THEN /\ depth' = depth + 1
            /\ callee' = LambdaCallee(converter)
            /\ UNCHANGED <<setupPc, formattedBy, handledErrors, setupResult>>
       ELSE IF RootHandlers[emitting] = "rotating_file"
       THEN /\ handledErrors' = handledErrors + 1
            /\ setupPc' = "log"
            /\ UNCHANGED <<depth, callee, formattedBy, setupResult>>
       ELSE /\ setupPc' = "idle"
            /\ setupResult' = [err |-> "LoggingSetupError", cause |-> "RecursionError"]
            /\ UNCHANGED <<depth, callee, formattedBy, handledErrors>>
    /\ UNCHANGED <<converter, handlers, logDirs, log_dir, emitting,
                   nSetupCalls, svars>>

\* ==================================================================== claims

Contains(seq, x) == \E i \in DOMAIN seq : seq[i] = x

\* Drivers constructed by the wrapper on which quit() was never requested.
Live == {d \in 1..nDrivers : quits[d] = 0}

\* C1: when a with block whose __enter__ succeeded is left, __exit__ has
\* invoked stop() exactly once, whether the body completed or raised, and
\* quit() has been requested on the driver that __enter__ yielded.
C1_ExitStopsOnce ==
    last.op = "exit" => /\ last.stops = 1
                        /\ withDriver # None
                        /\ quits[withDriver] >= 1

C1_Witness ==
    /\ last.op = "exit"
    /\ last.exc = BodyError
    /\ last.quit = withDriver
    /\ last.stops = 1

\* C2: every stop() made while the wrapper holds a handle leaves the handle
\* None, whether quit() succeeded or failed; when quit() failed the call ends
\* with DriverShutdownError and the handle is None all the same.
C2_StopClearsHandle ==
    last.quit # None =>
        /\ _driver = None
        /\ last.quitFailed => (last.err = DriverShutdownError /\ _driver = None)
        /\ (last.op = "stop" /\ ~last.quitFailed) => last.err = NoError

C2_Witness ==
    /\ last.op = "stop"
    /\ last.held # None
    /\ last.quitFailed
    /\ last.err = DriverShutdownError
    /\ _driver = None

\* C3: a start() made while a handle is held (a second start() with no
\* stop() in between) returns the held handle, the one the first start()
\* returned, constructs no driver and no service, leaves the wrapper
\* unchanged and logs exactly one warning.
C3_SecondStartIsNoOp ==
    /\ [](last.op \in {"start", "enter"} /\ last.err = NoError
            => last.ret = _driver /\ _driver # None)
    /\ [][(_driver # None /\ last'.op \in {"start", "enter"} /\ nCalls' = nCalls + 1)
            => /\ last'.ret = _driver
               /\ last'.err = NoError
               /\ _driver' = _driver
               /\ _service' = _service
               /\ nDrivers' = nDrivers
               /\ nServices' = nServices
               /\ quits' = quits
               /\ last'.log = <<"warning">>]_vars

C3_Witness ==
    /\ last.op = "start"
    /\ last.held # None
    /\ last.ret = last.held
    /\ last.log = <<"warning">>

\* C4: after every call the drivers the wrapper constructed and on which
\* quit() was not requested are at most one, and exactly the held one.
C4_OwnsZeroOrOne ==
    /\ Cardinality(Live) <= 1
    /\ Live = (IF _driver = None THEN {} ELSE {_driver})

C4_Witness ==
    /\ _driver = 2
    /\ quits[1] > 0
    /\ Live = {2}

\* C5 (as claimed): a start() made with no handle held that fails has invoked
\* stop() and ends with DriverInitializationError.
C5_FailedStartIsInitError ==
    (last.op \in {"start", "enter"} /\ last.held = None /\ last.err # NoError)
        => /\ last.stops = 1
           /\ last.err = DriverInitializationError

\* C6 (as claimed): the exception raised by the body of a with block is the
\* exception that leaves the with statement.
C6_BodyExceptionPropagates ==
    (last.op = "exit" /\ last.exc # NoError) => last.err = last.exc

\* C7 (as claimed): after a call that invoked stop(), and after a failed
\* start(), the wrapper holds neither a handle nor a service.
C7_StopClearsService ==
    (last.stops > 0 \/ (last.op \in {"start", "enter"} /\ last.err # NoError))
        => /\ _driver = None
           /\ _service = NoService

\* C8: the options handed to webdriver.Chrome hold the three fixed flags;
\* with headless set they also have the headless property and --disable-gpu,
\* without it neither.
C8_OptionsFlags ==
    nServices > 0 =>
        /\ Contains(driverOptions.arguments, "--disable-infobars")
        /\ Contains(driverOptions.arguments, "--disable-dev-shm-usage")
        /\ Contains(driverOptions.arguments, "--no-sandbox")
        /\ driverOptions.headless = headless
        /\ Contains(driverOptions.arguments, "--disable-gpu") <=> headless

C8_Witness ==
    /\ nDrivers > 0
    /\ headless
    /\ driverOptions.headless
    /\ Contains(driverOptions.arguments, "--disable-gpu")

\* C9 (as claimed): when the body of a with block raised, __exit__ has logged
\* the exception with its exc_info.
C9_BodyExceptionLogged ==
    (last.op = "exit" /\ last.exc # NoError)
        => Contains(last.log, "error:exc_info")

\* C10 (as claimed): a converter call never exhausts the stack, and a
\* setup_logging call in which directory creation and dictConfig succeeded
\* returns normally with the success record formatted by every handler.
C10_ConverterTerminates ==
    /\ depth < RecursionLimit
    /\ (setupPc = "idle" /\ nSetupCalls > 0
          /\ setupResult.cause \notin {"OSError", "ValueError"})
        => /\ setupResult.err = NoError
           /\ formattedBy = handlers

\* ============================================================ specifications

Init == /\ \E path \in {None, 1}, h \in BOOLEAN : ScraperInit(path, h)
        /\ LoggingInit({})

Next == Start \/ Stop \/ Enter \/ Exit

Spec == Init /\ [][Next]_vars

InitLogging == /\ ScraperInit(None, FALSE)
               /\ \E dirs \in SUBSET {"default/logs", "root/logs"} : LoggingInit(dirs)

NextLogging == GetLogDir \/ DictConfig \/ AssignConverter \/ LogInfo \/ ConverterCall

SpecLogging == InitLogging /\ [][NextLogging]_vars
====
